---- MODULE Spec2Model ----
(***************************************************************************)
(* Model of the contact form of ueda-kio/practice_git:                     *)
(*   src/js/modules/class/_FormValidation.mjs  (class Validation)          *)
(*   src/js/modules/_submitContact.mjs         (submitContact)             *)
(* A text value is a sequence of one-character strings; messages, labels   *)
(* and the content of an error element are strings.                        *)
(***************************************************************************)
EXTENDS Integers, Sequences, FiniteSets, TLC

VARIABLES form, value, checked, isInvalid, isError, labelError, idLabelError,
          errorText, focus, requests, last, passes

\* passes counts the submit clicks made with every control valid.
vars == <<form, value, checked, isInvalid, isError, labelError, idLabelError,
          errorText, focus, requests, last, passes>>

\* Largest number of POSTs a behaviour issues.
MaxRequests == 2

(***************************************************************************)
(* The documents the model is run on.  A control is the record of the      *)
(* attributes the code reads; -1 stands for an absent minlength/maxlength  *)
(* attribute, "" or <<>> for an absent string attribute.                   *)
(***************************************************************************)
Control(type, name, id, val, required) ==
  [type |-> type, name |-> name, id |-> id, value |-> val, required |-> required,
   minlength |-> -1, maxlength |-> -1, pattern |-> <<>>, errorMessage |-> "",
   title |-> "", radioGroupError |-> "", errorId |-> ""]

\* Two required radios of the inquiry group sharing one error element, and a name.
FormInquiry ==
  [inputs |-> <<
     [Control("radio", "type", "type1", <<"radio01">>, TRUE) EXCEPT !.radioGroupError = "type-error"],
     [Control("radio", "type", "type2", <<"radio02">>, TRUE) EXCEPT !.radioGroupError = "type-error"],
     [Control("text", "name", "name", <<>>, TRUE) EXCEPT !.errorMessage = "name-is-required"] >>,
   errors |-> {"type-error", "name-error"},
   ids |-> {}]

\* A referral group whose first radio alone is required, and an optional radio
\* of the inquiry group.
FormReferral ==
  [inputs |-> <<
     [Control("radio", "adv", "adv1", <<"sns">>, TRUE) EXCEPT !.errorId = "adv"],
     [Control("radio", "adv", "adv2", <<"blog">>, FALSE) EXCEPT !.errorId = "adv"],
     Control("radio", "type", "type4", <<"radio04">>, FALSE) >>,
   errors |-> {"adv-error", "type4-error"},
   ids |-> {"adv"}]

\* An optional company name of at most two characters.
FormCompany ==
  [inputs |-> <<
     [Control("text", "companyName", "companyName", <<>>, FALSE) EXCEPT !.maxlength = 2] >>,
   errors |-> {"companyName-error"},
   ids |-> {}]

\* A required checkbox whose error element is missing from the page, an e-mail
\* with a pattern and a detail with a minimum length.
FormDetail ==
  [inputs |-> <<
     Control("checkbox", "agree", "agree", <<"on">>, TRUE),
     [Control("text", "email", "email", <<>>, TRUE) EXCEPT !.pattern = <<"@">>, !.title = "email-format"],
     [Control("textarea", "detail", "detail", <<>>, FALSE) EXCEPT !.minlength = 2] >>,
   errors |-> {"email-error", "detail-error"},
   ids |-> {}]

Forms == {FormInquiry, FormReferral, FormCompany, FormDetail}

\* What the user can type into a text field.
TextValues == { <<>>, <<" ">>, <<" ", "a">>, <<"a", "@", "b", " ">> }

inputs == form.inputs
N == Len(inputs)
Ids == 1..N
TextLike(i) == inputs[i].type \notin {"radio", "checkbox"}

(***************************************************************************)
(* String helpers                                                          *)
(***************************************************************************)
IsSpace(c) == c = " "

RECURSIVE TrimStart(_)
TrimStart(s) == IF s # <<>> /\ IsSpace(Head(s)) THEN TrimStart(Tail(s)) ELSE s

RECURSIVE TrimEnd(_)
TrimEnd(s) ==
  IF s # <<>> /\ IsSpace(s[Len(s)]) THEN TrimEnd(SubSeq(s, 1, Len(s) - 1)) ELSE s

\* String.prototype.trim
Trim(s) == TrimEnd(TrimStart(s))

\* new RegExp(p).test(s) for a pattern of literal characters: an unanchored search.
RegExpTest(p, s) ==
  \E k \in 0..(Len(s) - Len(p)) : SubSeq(s, k + 1, k + Len(p)) = p

(***************************************************************************)
(* this.validate: each rule returns its message, "" when it passes         *)
(***************************************************************************)
MsgRequired == "required-generic"
MsgPattern == "pattern-generic"
MsgMinLength(n) == ToString(n) \o "-or-more"
MsgMaxLength(n) == ToString(n) \o "-or-less"

minLength(i, val, chk) ==
  IF inputs[i].minlength = -1 THEN ""
  ELSE IF inputs[i].minlength <= Len(Trim(val[i])) THEN ""
       ELSE MsgMinLength(inputs[i].minlength)

maxLength(i, val, chk) ==
  IF inputs[i].maxlength = -1 THEN ""
  ELSE IF Len(Trim(val[i])) <= inputs[i].maxlength THEN ""
       ELSE MsgMaxLength(inputs[i].maxlength)

\* form.querySelectorAll(`input[type="radio"][name="${name}"]`)
RadioGroup(name) == {j \in Ids : inputs[j].type = "radio" /\ inputs[j].name = name}

\* Variant of required that reads the evaluated radio's own checked state only.
requiredOwnChecked(i, val, chk) ==
  IF ~inputs[i].required THEN ""
  ELSE IF inputs[i].type \in {"checkbox", "radio"}
       THEN (IF chk[i] THEN "" ELSE MsgRequired)
  ELSE IF Trim(val[i]) = <<>>
       THEN (IF inputs[i].errorMessage # "" THEN inputs[i].errorMessage ELSE MsgRequired)
  ELSE ""

\* Variant of required that compares the untrimmed value.
requiredNoTrim(i, val, chk) ==
  IF ~inputs[i].required THEN ""
  ELSE IF inputs[i].type = "checkbox"
       THEN (IF chk[i] THEN "" ELSE MsgRequired)
  ELSE IF inputs[i].type = "radio"
       THEN (IF \E j \in RadioGroup(inputs[i].name) : chk[j] THEN "" ELSE MsgRequired)
  ELSE IF val[i] = <<>>
       THEN (IF inputs[i].errorMessage # "" THEN inputs[i].errorMessage ELSE MsgRequired)
  ELSE ""

required(i, val, chk) ==
  IF ~inputs[i].required THEN ""
  ELSE IF inputs[i].type = "checkbox"
       THEN (IF chk[i] THEN "" ELSE MsgRequired)
  ELSE IF inputs[i].type = "radio"
       THEN (IF \E j \in RadioGroup(inputs[i].name) : chk[j] THEN "" ELSE MsgRequired)
  ELSE IF Trim(val[i]) = <<>>
       THEN (IF inputs[i].errorMessage # "" THEN inputs[i].errorMessage ELSE MsgRequired)
  ELSE ""

pattern(i, val, chk) ==
  IF inputs[i].pattern = <<>> \/ ~inputs[i].required THEN ""
  ELSE IF RegExpTest(inputs[i].pattern, val[i]) THEN ""
  ELSE IF inputs[i].title # "" THEN inputs[i].title ELSE MsgPattern

\* Variant of result that keeps the first non-empty message only.
RECURSIVE resultFirstOnly(_)
resultFirstOnly(messages) ==
  IF messages = <<>> THEN ""
  ELSE IF Head(messages) # "" THEN Head(messages)
  ELSE resultFirstOnly(Tail(messages))

\* result(messages): the non-empty messages joined with "<br>"
RECURSIVE result(_)
result(messages) ==
  IF messages = <<>> THEN ""
  ELSE LET rest == result(Tail(messages)) IN
       IF Head(messages) = "" THEN rest
       ELSE IF rest = "" THEN Head(messages)
       ELSE Head(messages) \o "<br>" \o rest

getErrorId(i) ==
  IF inputs[i].radioGroupError # "" THEN inputs[i].radioGroupError
  ELSE IF inputs[i].errorId # "" THEN inputs[i].errorId \o "-error"
  ELSE inputs[i].id \o "-error"

\* The message getHandler computes for control i.
errorMessage(i, val, chk) ==
  result(<< minLength(i, val, chk), maxLength(i, val, chk),
            required(i, val, chk), pattern(i, val, chk) >>)

(***************************************************************************)
(* this.isInvalid: a Map, kept as the sequence of its entries in insertion *)
(* order.                                                                  *)
(***************************************************************************)
MapHas(m, k) == \E n \in 1..Len(m) : m[n].key = k
MapGet(m, k) == m[CHOOSE n \in 1..Len(m) : m[n].key = k].state
MapKeys(m) == {m[n].key : n \in 1..Len(m)}

\* Variant of set that always adds an entry.
MapSetAppend(m, k, v) == Append(m, [key |-> k, state |-> v])

\* Map.prototype.set: an existing key keeps its place, a new one goes last.
MapSet(m, k, v) ==
  IF MapHas(m, k)
  THEN [n \in 1..Len(m) |-> IF m[n].key = k THEN [key |-> k, state |-> v] ELSE m[n]]
  ELSE Append(m, [key |-> k, state |-> v])

(***************************************************************************)
(* The page state getHandler writes, as one record                         *)
(***************************************************************************)
Dom == [isInvalid |-> isInvalid, isError |-> isError, labelError |-> labelError,
        idLabelError |-> idLabelError, errorText |-> errorText]

\* Variant of the rendering that does not clear the element first.
RenderErrorAppending(d, eid, msg) ==
  [d EXCEPT !.errorText[eid] = msg \o d.errorText[eid]]

\* error.textContent = ''; error.insertAdjacentHTML('afterbegin', msg)
RenderError(d, eid, msg) ==
  [d EXCEPT !.errorText[eid] = msg \o ""]

\* Variant of the reset that leaves the marker of the controls in place.
resetKeepingMarker(d, i) ==
  LET errorId == getErrorId(i)
  IN [d EXCEPT
        !.errorText = [e \in DOMAIN d.errorText |->
                         IF e = errorId THEN "" ELSE d.errorText[e]],
        !.labelError[i] = FALSE,
        !.idLabelError = [e \in DOMAIN d.idLabelError |->
                            IF e = inputs[i].errorId THEN FALSE ELSE d.idLabelError[e]]]

\* Variant of the reset that unmarks the evaluated control only.
resetOwnMarkerOnly(d, i) ==
  LET errorId == getErrorId(i)
  IN [d EXCEPT
        !.errorText = [e \in DOMAIN d.errorText |->
                         IF e = errorId THEN "" ELSE d.errorText[e]],
        !.isError[i] = FALSE,
        !.labelError[i] = FALSE,
        !.idLabelError = [e \in DOMAIN d.idLabelError |->
                            IF e = inputs[i].errorId THEN FALSE ELSE d.idLabelError[e]]]

resetInputErrorState(d, i) ==
  LET inputElms == IF inputs[i].type = "radio" THEN RadioGroup(inputs[i].name) ELSE {i}
      errorId == getErrorId(i)
  IN [d EXCEPT
        !.errorText = [e \in DOMAIN d.errorText |->
                         IF e = errorId THEN "" ELSE d.errorText[e]],
        !.isError = [j \in Ids |-> IF j \in inputElms THEN FALSE ELSE d.isError[j]],
        !.labelError[i] = FALSE,
        !.idLabelError = [e \in DOMAIN d.idLabelError |->
                            IF e = inputs[i].errorId THEN FALSE ELSE d.idLabelError[e]]]

\* Variant of getHandler that records a radio with no message of its own as
\* invalid while the required rule fails for another radio of its group.
getHandlerGroupInvalid(d, i, val, chk) ==
  LET msg == errorMessage(i, val, chk)
      errorId == getErrorId(i)
      groupFails == /\ inputs[i].type = "radio"
                    /\ \E j \in RadioGroup(inputs[i].name) \ {i} : required(j, val, chk) # ""
  IN IF msg # ""
     THEN LET d1 == [d EXCEPT !.isInvalid = MapSet(d.isInvalid, i, TRUE),
                              !.isError[i] = TRUE,
                              !.labelError[i] = TRUE]
          IN IF errorId \in form.errors
             THEN [dom |-> RenderError(d1, errorId, msg), threw |-> FALSE]
             ELSE [dom |-> d1, threw |-> TRUE]
     ELSE IF groupFails
     THEN [dom |-> [d EXCEPT !.isInvalid = MapSet(d.isInvalid, i, TRUE)], threw |-> FALSE]
     ELSE [dom |-> resetInputErrorState(
                     [d EXCEPT !.isInvalid = MapSet(d.isInvalid, i, FALSE)], i),
           threw |-> FALSE]

\* getHandler(input): the page state it leaves, and whether it ended by the
\* TypeError of writing to an error element the page does not have.
getHandler(d, i, val, chk) ==
  LET msg == errorMessage(i, val, chk)
      isValid == msg = ""
      errorId == getErrorId(i)
  IN IF ~isValid
     THEN LET d1 == [d EXCEPT !.isInvalid = MapSet(d.isInvalid, i, TRUE),
                              !.isError[i] = TRUE,
                              !.labelError[i] = TRUE]
          IN IF msg # ""
             THEN IF errorId \in form.errors
                  THEN [dom |-> RenderError(d1, errorId, msg), threw |-> FALSE]
                  ELSE [dom |-> d1, threw |-> TRUE]
             ELSE [dom |-> [d1 EXCEPT !.isInvalid = MapSet(d1.isInvalid, i, FALSE),
                                      !.isError[i] = FALSE],
                   threw |-> FALSE]
     ELSE [dom |-> resetInputErrorState(
                     [d EXCEPT !.isInvalid = MapSet(d.isInvalid, i, FALSE)], i),
           threw |-> FALSE]

\* this.inputs.forEach((input) => { getHandler(input) }), from control k on; an
\* exception ends the loop.
RECURSIVE evaluateFrom(_, _, _, _)
evaluateFrom(d, k, val, chk) ==
  IF k > N THEN [dom |-> d, threw |-> FALSE]
  ELSE LET r == getHandler(d, k, val, chk)
       IN IF r.threw THEN r ELSE evaluateFrom(r.dom, k + 1, val, chk)

\* Variants of the pass: no control evaluated; the first control left out.
evaluateNone(d, val, chk) == [dom |-> d, threw |-> FALSE]

evaluateAllButFirst(d, val, chk) == evaluateFrom(d, 2, val, chk)

evaluateAll(d, val, chk) == evaluateFrom(d, 1, val, chk)

\* for (const [input, state] of this.isInvalid) if (state) ...: the first entry,
\* in the Map's order, whose state is true; 0 when there is none.
firstInvalid(m) ==
  IF \E n \in 1..Len(m) : m[n].state
  THEN m[CHOOSE n \in 1..Len(m) : m[n].state /\ \A k \in 1..(n - 1) : ~m[k].state].key
  ELSE 0

(***************************************************************************)
(* submitContact                                                           *)
(***************************************************************************)
TypeLabel(v, old) ==
  CASE v = <<"radio01">> -> "work-request"
    [] v = <<"radio02">> -> "estimate-request"
    [] v = <<"radio03">> -> "recruitment"
    [] v = <<"radio04">> -> "other"
    [] OTHER -> old

AdvLabel(v, old) ==
  CASE v = <<"search">> -> "search-engine"
    [] v = <<"sns">> -> "SNS"
    [] v = <<"friends">> -> "friends"
    [] v = <<"blog">> -> "blog"
    [] v = <<"other">> -> "other"
    [] OTHER -> old

NoValues == [type |-> "", name |-> <<>>, companyName |-> <<>>, email |-> <<>>,
             detail |-> <<>>, adv |-> ""]

\* One pass of the switch of getValues, for control i.
getValuesStep(acc, i, val) ==
  CASE inputs[i].type = "radio" -> [acc EXCEPT !.type = TypeLabel(val[i], acc.type)]
    [] inputs[i].name = "name" -> [acc EXCEPT !.name = val[i]]
    [] inputs[i].name = "companyName" -> [acc EXCEPT !.companyName = val[i]]
    [] inputs[i].name = "email" -> [acc EXCEPT !.email = val[i]]
    [] inputs[i].name = "detail" -> [acc EXCEPT !.detail = val[i]]
    [] inputs[i].name = "adv" -> [acc EXCEPT !.adv = AdvLabel(val[i], acc.adv)]
    [] OTHER -> acc

RECURSIVE getValuesFrom(_, _, _)
getValuesFrom(acc, k, val) ==
  IF k > N THEN acc ELSE getValuesFrom(getValuesStep(acc, k, val), k + 1, val)

getValues(val) == getValuesFrom(NoValues, 1, val)

Placeholder == <<"not-provided">>

\* The lines of payload.text after the interpolation and the replace(), which
\* strips the white space ending each line.
payloadText(v) ==
  [adv |-> v.adv, type |-> v.type, name |-> TrimEnd(v.name),
   companyName |-> TrimEnd(IF v.companyName # <<>> THEN v.companyName ELSE Placeholder),
   email |-> TrimEnd(v.email), detail |-> TrimEnd(v.detail)]

\* fetch(url, {method: 'POST', body}).then(() => alert(...)): the request is in
\* flight, and nothing has been shown.
fetchValues(val) ==
  [payload |-> payloadText(getValues(val)), status |-> "pending", alerts |-> 0]

(***************************************************************************)
(* State after new Validation(form): nothing evaluated, nothing marked     *)
(***************************************************************************)
Init ==
  /\ form \in Forms
  /\ value = [i \in 1..Len(form.inputs) |-> form.inputs[i].value]
  /\ checked = [i \in 1..Len(form.inputs) |-> FALSE]
  /\ isInvalid = <<>>
  /\ isError = [i \in 1..Len(form.inputs) |-> FALSE]
  /\ labelError = [i \in 1..Len(form.inputs) |-> FALSE]
  /\ idLabelError = [e \in form.ids |-> FALSE]
  /\ errorText = [e \in form.errors |-> ""]
  /\ focus = 0
  /\ requests = <<>>
  /\ last = "attach"
  /\ passes = 0

\* The 'input' listener of control i, run on the page as the event left it.
InputHandler(i, val, chk) ==
  LET r == getHandler(Dom, i, val, chk)
  IN /\ isInvalid' = r.dom.isInvalid
     /\ isError' = r.dom.isError
     /\ labelError' = r.dom.labelError
     /\ idLabelError' = r.dom.idLabelError
     /\ errorText' = r.dom.errorText
     /\ last' = IF r.threw THEN "inputThrew" ELSE "input"
     /\ value' = val
     /\ checked' = chk
     /\ UNCHANGED <<form, focus, requests, passes>>

\* The user edits a text field, textarea or select.
InputText(i, v) ==
  /\ TextLike(i)
  /\ v # value[i]
  /\ InputHandler(i, [value EXCEPT ![i] = v], checked)

\* The user ticks or unticks a checkbox.
InputCheckbox(i) ==
  /\ inputs[i].type = "checkbox"
  /\ InputHandler(i, value, [checked EXCEPT ![i] = ~checked[i]])

\* The user picks a radio: the browser unchecks the others of its group and
\* fires 'input' on the picked one only.
InputRadio(i) ==
  /\ inputs[i].type = "radio"
  /\ ~checked[i]
  /\ InputHandler(i, value,
       [j \in Ids |-> IF j = i THEN TRUE
                      ELSE IF j \in RadioGroup(inputs[i].name) THEN FALSE
                      ELSE checked[j]])

\* Variant of the click listener that issues no POST while one is in flight.
SubmitClickOneInFlight ==
  /\ Len(requests) < MaxRequests
  /\ LET r == evaluateAll(Dom, value, checked)
         target == firstInvalid(r.dom.isInvalid)
     IN /\ isInvalid' = r.dom.isInvalid
        /\ isError' = r.dom.isError
        /\ labelError' = r.dom.labelError
        /\ idLabelError' = r.dom.idLabelError
        /\ errorText' = r.dom.errorText
        /\ IF r.threw
           THEN /\ last' = "submitThrew"
                /\ UNCHANGED <<focus, requests>>
           ELSE IF target # 0
           THEN /\ last' = "blocked"
                /\ focus' = target
                /\ UNCHANGED requests
           ELSE /\ last' = "submitted"
                /\ requests' = IF \E q \in 1..Len(requests) : requests[q].status = "pending"
                               THEN requests
                               ELSE Append(requests, fetchValues(value))
                /\ UNCHANGED focus
  /\ passes' = passes + (IF \A i \in Ids : errorMessage(i, value, checked) = "" THEN 1 ELSE 0)
  /\ UNCHANGED <<form, value, checked>>

\* The 'click' listener of the submit button.
SubmitClick ==
  /\ Len(requests) < MaxRequests
  /\ LET r == evaluateAll(Dom, value, checked)
         target == firstInvalid(r.dom.isInvalid)
     IN /\ isInvalid' = r.dom.isInvalid
        /\ isError' = r.dom.isError
        /\ labelError' = r.dom.labelError
        /\ idLabelError' = r.dom.idLabelError
        /\ errorText' = r.dom.errorText
        /\ IF r.threw
           THEN /\ last' = "submitThrew"
                /\ UNCHANGED <<focus, requests>>
           ELSE IF target # 0
           THEN /\ last' = "blocked"
                /\ focus' = target
                /\ UNCHANGED requests
           ELSE /\ last' = "submitted"
                /\ requests' = Append(requests, fetchValues(value))
                /\ UNCHANGED focus
  /\ passes' = passes + (IF \A i \in Ids : errorMessage(i, value, checked) = "" THEN 1 ELSE 0)
  /\ UNCHANGED <<form, value, checked>>

\* The request completes at transport level: the promise of fetch is fulfilled
\* and the reaction registered by .then runs in the same turn: alert().
\* Variant of the completion that reads the form again for the payload.
fetchCompletedRereading(q) ==
  [q EXCEPT !.status = "fulfilled", !.alerts = q.alerts + 1,
            !.payload = payloadText(getValues(value))]

fetchCompleted(q) == [q EXCEPT !.status = "fulfilled", !.alerts = q.alerts + 1]

\* Variant of the completion that also resets the form.
FetchFulfilledResetting(r) ==
  /\ requests[r].status = "pending"
  /\ requests' = [requests EXCEPT ![r] = fetchCompleted(requests[r])]
  /\ value' = [i \in Ids |-> inputs[i].value]
  /\ checked' = [i \in Ids |-> FALSE]
  /\ UNCHANGED <<form, isInvalid, isError, labelError,
                 idLabelError, errorText, focus, last, passes>>

FetchFulfilled(r) ==
  /\ requests[r].status = "pending"
  /\ requests' = [requests EXCEPT ![r] = fetchCompleted(requests[r])]
  /\ UNCHANGED <<form, value, checked, isInvalid, isError, labelError,
                 idLabelError, errorText, focus, last, passes>>

\* Variant with a reaction registered for the rejection too.
fetchFailedAlerting(q) == [q EXCEPT !.status = "rejected", !.alerts = q.alerts + 1]

\* The request fails at transport level: the promise is rejected, and no
\* reaction is registered for the rejection.
fetchFailed(q) == [q EXCEPT !.status = "rejected"]

FetchRejected(r) ==
  /\ requests[r].status = "pending"
  /\ requests' = [requests EXCEPT ![r] = fetchFailed(requests[r])]
  /\ UNCHANGED <<form, value, checked, isInvalid, isError, labelError,
                 idLabelError, errorText, focus, last, passes>>

Next ==
  \/ \E i \in Ids, v \in TextValues : InputText(i, v)
  \/ \E i \in Ids : InputCheckbox(i)
  \/ \E i \in Ids : InputRadio(i)
  \/ SubmitClick
  \/ \E r \in 1..Len(requests) : FetchFulfilled(r)
  \/ \E r \in 1..Len(requests) : FetchRejected(r)

Spec == Init /\ [][Next]_vars

(***************************************************************************)
(* Properties                                                              *)
(***************************************************************************)
\* Control i evaluates valid against its current value.
Valid(i) == errorMessage(i, value, checked) = ""
AllValid == \A i \in Ids : Valid(i)
Passed == last \in {"blocked", "submitted"}
Recorded(i) == MapHas(isInvalid, i)
Newest == requests[Len(requests)]

\* C1: a submit click issues the POST if and only if every control evaluates
\* valid against its current value; with an invalid control it issues none.
C1_SubmitGating ==
  [][SubmitClick => ((Len(requests') = Len(requests) + 1) <=> AllValid)
                    /\ (~AllValid => requests' = requests)]_vars

C1_Witness == last = "submitted" /\ Len(requests) = 1 /\ Len(isInvalid) = N

\* C2: a submit click that finds an invalid control moves the focus to the
\* first invalid control in the order of the controls in the document.
C2_FocusFirstInDocument ==
  last = "blocked" =>
    /\ focus \in Ids
    /\ ~Valid(focus)
    /\ \A j \in 1..(focus - 1) : Valid(j)

\* C3 as stated: in every state the validity record holds exactly one entry for
\* every control of the form.
C3_EntryForEveryControl ==
  MapKeys(isInvalid) = Ids /\ Len(isInvalid) = N

\* C3 as amended: the record holds entries for controls of the form only, never
\* two for one control, and after a submit click whose evaluation pass ran
\* through it holds one for every control.
C3_EntriesOfControlsOnly ==
  /\ MapKeys(isInvalid) \subseteq Ids
  /\ Cardinality(MapKeys(isInvalid)) = Len(isInvalid)
  /\ Passed => MapKeys(isInvalid) = Ids

C3_Witness == Len(isInvalid) > 0 /\ Len(isInvalid) < N /\ last = "input"

\* C4: when the submit handler proceeds or aborts, the entry of every control
\* equals the evaluation of its current value made in that run.
C4_NoStaleValidity ==
  Passed => \A i \in Ids : Recorded(i) /\ (MapGet(isInvalid, i) <=> ~Valid(i))

C4_Witness ==
  /\ last = "blocked"
  /\ \E i, j \in Ids : Valid(i) /\ ~Valid(j) /\ value[i] # inputs[i].value

\* The label of the radio the user selected in the inquiry group, "" without one.
SelectedTypeLabel ==
  IF \E i \in RadioGroup("type") : checked[i]
  THEN TypeLabel(value[CHOOSE i \in RadioGroup("type") : checked[i]], "")
  ELSE ""

\* C5: the inquiry label of the payload is the label of the selected radio of
\* the inquiry group, whatever the unselected radios are.
C5_TypeLabelOfSelectedRadio ==
  last = "submitted" => Newest.payload.type = SelectedTypeLabel

\* C6: with a radio group named adv, the referral label of the payload is the
\* label of the selected radio.
C6_AdvLabelOfSelectedRadio ==
  last = "submitted" =>
    \A i \in RadioGroup("adv") :
      checked[i] => Newest.payload.adv = AdvLabel(value[i], "")

GroupChecked(i) == \E j \in RadioGroup(inputs[i].name) : checked[j]

\* C7: a required radio passes the required rule, and is recorded valid by a
\* submit pass, iff some radio of its name is checked.
C7_RadioRequiredByGroup ==
  \A i \in Ids :
    inputs[i].type = "radio" /\ inputs[i].required =>
      /\ (required(i, value, checked) = "") <=> GroupChecked(i)
      /\ Passed => (MapGet(isInvalid, i) <=> ~GroupChecked(i))

C7_Witness ==
  \E i \in Ids :
    /\ inputs[i].type = "radio" /\ inputs[i].required
    /\ ~checked[i] /\ GroupChecked(i)
    /\ Passed /\ ~MapGet(isInvalid, i)

\* C8: the members of a radio group carry the same validity entry and the same
\* error markers.
C8_GroupAsUnit ==
  \A i, j \in Ids :
    inputs[i].type = "radio" /\ j \in RadioGroup(inputs[i].name) =>
      /\ Recorded(i) /\ Recorded(j) => MapGet(isInvalid, i) = MapGet(isInvalid, j)
      /\ isError[i] = isError[j]
      /\ labelError[i] = labelError[j]

\* C9: the acknowledgment of a request is shown once when the request has
\* completed, and not at all while it is pending or when it has failed.
C9_AcknowledgedOnceOnCompletion ==
  \A r \in 1..Len(requests) :
    requests[r].alerts = (IF requests[r].status = "fulfilled" THEN 1 ELSE 0)

C9_Witness ==
  \E r \in 1..Len(requests) : requests[r].status = "fulfilled" /\ requests[r].alerts = 1

\* C10: evaluating a control again, with nothing changed, leaves the record, the
\* markers and the rendered message as the first evaluation left them.
C10_EvaluationIdempotent ==
  \A i \in Ids :
    LET once == getHandler(Dom, i, value, checked)
        twice == getHandler(once.dom, i, value, checked)
        thrice == getHandler(twice.dom, i, value, checked)
    IN twice = once /\ thrice = once

C10_Witness ==
  /\ last = "blocked"
  /\ \E i \in Ids : /\ getErrorId(i) \in form.errors
                    /\ ~Valid(i)
                    /\ errorText[getErrorId(i)] = errorMessage(i, value, checked)
                    /\ value[i] # inputs[i].value

\* The required message a control asks for: its custom one, else the generic one.
RequiredMessage(i) ==
  IF inputs[i].errorMessage # "" THEN inputs[i].errorMessage ELSE MsgRequired

EmptyRequired(i) == inputs[i].required /\ Trim(value[i]) = <<>>

HasErrorElement(i) == getErrorId(i) \in form.errors

\* C11 as stated: a required control whose trimmed value is empty evaluates
\* invalid, and its message is its custom required message, else the generic one.
C11_RequiredMessageAlone ==
  \A i \in Ids :
    EmptyRequired(i) =>
      ~Valid(i) /\ errorMessage(i, value, checked) = RequiredMessage(i)

\* C11 as amended: a required text-like control whose trimmed value is empty
\* evaluates invalid; its required message is the custom one, else the generic
\* one, and the message shown is that one between the minLength and the pattern
\* messages of the rules that fail with it, and alone when neither is declared.
C11_RequiredMessageOfEmptyText ==
  \A i \in Ids :
    TextLike(i) /\ EmptyRequired(i) =>
      /\ ~Valid(i)
      /\ required(i, value, checked) = RequiredMessage(i)
      /\ errorMessage(i, value, checked) =
           result(<< minLength(i, value, checked), RequiredMessage(i),
                     pattern(i, value, checked) >>)
      /\ inputs[i].minlength = -1 /\ inputs[i].pattern = <<>> =>
           errorMessage(i, value, checked) = RequiredMessage(i)
      /\ Recorded(i) =>
           /\ MapGet(isInvalid, i)
           /\ isError[i]
           /\ HasErrorElement(i) =>
                errorText[getErrorId(i)] = errorMessage(i, value, checked)

C11_Witness ==
  \E i \in Ids :
    /\ TextLike(i) /\ inputs[i].required /\ value[i] = <<" ">>
    /\ Recorded(i) /\ MapGet(isInvalid, i)
    /\ errorText[getErrorId(i)] = RequiredMessage(i)

\* C12: the payload shows the placeholder for an empty companyName field and the
\* trimmed value of the field for a non-empty one.
C12_CompanyNameTrimmed ==
  last = "submitted" =>
    \A i \in Ids :
      inputs[i].name = "companyName" /\ TextLike(i) =>
        Newest.payload.companyName =
          (IF value[i] = <<>> THEN Placeholder ELSE Trim(value[i]))

\* C13: the completion of a request changes no value, checked state, record
\* entry or marker, and the click that issues a request changes no value or
\* checked state and leaves the record and the markers as its evaluation pass
\* left them.
C13_SubmissionKeepsForm ==
  [][/\ Len(requests') = Len(requests) /\ requests' # requests =>
          UNCHANGED <<value, checked, isInvalid, isError, labelError,
                      idLabelError, errorText, focus>>
     /\ Len(requests') > Len(requests) =>
          /\ UNCHANGED <<value, checked>>
          /\ Dom' = evaluateAll(Dom, value, checked).dom]_vars

C13_Witness ==
  /\ last = "submitted"
  /\ \E r \in 1..Len(requests) : requests[r].status = "fulfilled"
  /\ \E i \in Ids : TextLike(i) /\ value[i] # inputs[i].value
  /\ \E i \in Ids : Recorded(i)

\* Radio i has no message of its own while the required rule fails for another
\* radio of its group.
GroupFailure(i) ==
  /\ inputs[i].type = "radio"
  /\ errorMessage(i, value, checked) = ""
  /\ \E j \in RadioGroup(inputs[i].name) \ {i} : required(j, value, checked) # ""

EvaluatesStep(i) ==
  \/ value'[i] # value[i]
  \/ checked'[i] # checked[i]
  \/ last' \in {"blocked", "submitted", "submitThrew"}

\* C15: a control has no entry from attach until its first evaluation, gets one
\* only by an input event on it or a submit click, never loses it, and after a
\* submit click every control has one.
C15_ControlStateMachine ==
  /\ [](last = "attach" => isInvalid = <<>>)
  /\ [][\A i \in Ids : /\ Recorded(i) => Recorded(i)'
                       /\ ~Recorded(i) /\ Recorded(i)' => EvaluatesStep(i)]_vars
  /\ [](last \in {"blocked", "submitted", "submitThrew"} => \A i \in Ids : Recorded(i))

NonEmpty(m) == m # ""

\* The messages of the rules that fail for control i, in the order minLength,
\* maxLength, required, pattern.
Shown(i) ==
  SelectSeq(<< minLength(i, value, checked), maxLength(i, value, checked),
               required(i, value, checked), pattern(i, value, checked) >>, NonEmpty)

RECURSIVE JoinBr(_)
JoinBr(ms) ==
  IF ms = <<>> THEN ""
  ELSE IF Len(ms) = 1 THEN ms[1]
  ELSE JoinBr(SubSeq(ms, 1, Len(ms) - 1)) \o "<br>" \o ms[Len(ms)]

\* C16 as stated: the message of a control is the messages of its failing rules,
\* in rule order, joined with a line break, and it is the required message alone
\* when the required rule fails.
C16_RequiredShownAlone ==
  \A i \in Ids :
    /\ errorMessage(i, value, checked) = JoinBr(Shown(i))
    /\ required(i, value, checked) # "" =>
         errorMessage(i, value, checked) = required(i, value, checked)

\* C16 as amended: the message of a control, which is what its error element
\* holds once a text-like control is evaluated, is the messages of its failing
\* rules, in rule order, joined with a line break; the required message is shown
\* with the message of every rule that fails with it.
C16_MessagesJoinedInRuleOrder ==
  \A i \in Ids :
    /\ errorMessage(i, value, checked) = JoinBr(Shown(i))
    /\ TextLike(i) /\ Recorded(i) /\ HasErrorElement(i) =>
         errorText[getErrorId(i)] = JoinBr(Shown(i))
    /\ required(i, value, checked) # "" /\ pattern(i, value, checked) # "" =>
         /\ Len(Shown(i)) >= 2
         /\ Shown(i)[Len(Shown(i)) - 1] = required(i, value, checked)
         /\ Shown(i)[Len(Shown(i))] = pattern(i, value, checked)

C16_Witness ==
  \E i \in Ids :
    /\ Recorded(i) /\ HasErrorElement(i)
    /\ Len(Shown(i)) = 2
    /\ errorText[getErrorId(i)] = Shown(i)[1] \o "<br>" \o Shown(i)[2]

\* The checked states after the user picks radio i.
Picked(i) ==
  [j \in Ids |-> IF j = i THEN TRUE
                 ELSE IF j \in RadioGroup(inputs[i].name) THEN FALSE
                 ELSE checked[j]]

\* The evaluations that can run on the page as it is: of a control as it is (a
\* submit click), and of a control after an edit, a tick or a pick of it.
Evaluations ==
  {<<i, value, checked>> : i \in Ids}
  \cup {<<i, [value EXCEPT ![i] = v], checked>> :
          i \in {j \in Ids : TextLike(j)}, v \in TextValues}
  \cup {<<i, value, [checked EXCEPT ![i] = ~checked[i]]>> :
          i \in {j \in Ids : inputs[j].type = "checkbox"}}
  \cup {<<i, value, Picked(i)>> : i \in {j \in Ids : inputs[j].type = "radio"}}

\* What an evaluation of control i must leave on the page.
EvaluationLeaves(i, val, chk) ==
  LET after == getHandler(Dom, i, val, chk).dom
      msg == errorMessage(i, val, chk)
  IN IF msg = ""
     THEN /\ ~MapGet(after.isInvalid, i)
          /\ HasErrorElement(i) => after.errorText[getErrorId(i)] = ""
          /\ ~after.isError[i]
          /\ ~after.labelError[i]
          /\ inputs[i].errorId \in form.ids => ~after.idLabelError[inputs[i].errorId]
          /\ inputs[i].type = "radio" =>
               \A j \in RadioGroup(inputs[i].name) : ~after.isError[j]
     ELSE /\ MapGet(after.isInvalid, i)
          /\ after.isError[i]
          /\ after.labelError[i]
          /\ HasErrorElement(i) => after.errorText[getErrorId(i)] = msg

\* C17: an evaluation that finds a control valid empties its error element and
\* removes the markers of the control, of its labels and of every radio of its
\* group; one that finds it invalid marks the control and its labels and leaves
\* exactly the current message in the error element.
C17_EvaluationRendersValidity ==
  \A e \in Evaluations : EvaluationLeaves(e[1], e[2], e[3])

C17_Witness ==
  /\ last = "input"
  /\ \E i, j \in Ids :
       /\ inputs[i].type = "radio" /\ checked[i]
       /\ j \in RadioGroup(inputs[i].name) \ {i}
       /\ Recorded(j) /\ MapGet(isInvalid, j)
       /\ ~isError[i] /\ ~isError[j] /\ ~labelError[i]
       /\ errorText[getErrorId(i)] = ""

\* C18: every submit click made with every control valid issues one POST, also
\* while an earlier request is in flight: as many POSTs as such clicks.
C18_PostPerPassingClick == passes = Len(requests)

C18_Witness ==
  /\ Len(requests) = 2
  /\ requests[1].status = "pending"
  /\ passes = 2

\* C19: the payload of a request is the one built from the values of the form at
\* the click that issued it, a form with every control valid, and no later step
\* changes it.
C19_PayloadFixedAtClick ==
  [][/\ Len(requests') >= Len(requests)
     /\ \A r \in 1..Len(requests) : requests'[r].payload = requests[r].payload
     /\ Len(requests') > Len(requests) =>
          /\ AllValid
          /\ UNCHANGED <<value, checked>>
          /\ requests'[Len(requests')].payload = payloadText(getValues(value))]_vars

C19_Witness ==
  \E r \in 1..Len(requests) :
    /\ requests[r].payload # payloadText(getValues(value))
    /\ ~AllValid
    /\ \E i \in Ids : Recorded(i) /\ MapGet(isInvalid, i)

\* C20: a control that carries the error marker, or whose label does, has an
\* entry that says invalid.
C20_MarkerImpliesInvalidEntry ==
  \A i \in Ids :
    isError[i] \/ labelError[i] => Recorded(i) /\ MapGet(isInvalid, i)

C20_Witness ==
  /\ last = "input"
  /\ \E i, j \in Ids :
       /\ isError[i] /\ MapGet(isInvalid, i)
       /\ Recorded(j) /\ ~MapGet(isInvalid, j) /\ ~isError[j]
       /\ value[j] # inputs[j].value

====
